---- MODULE Spec2Model ----
(***************************************************************************)
(* The momentum rebalancing bot of kz_bot2.py: RiskManager, MockMarket,    *)
(* ExchangeClient and DynamicMomentumBot.step/run, as a state machine      *)
(* (Spec), and TradingBot.step of kz_bot.py, a separate program (KzSpec).  *)
(* Money is in dollars.  Python floats are modelled as exact rationals     *)
(* [n, d] (d > 0, lowest terms), so rounding error is not modelled.        *)
(***************************************************************************)
EXTENDS Integers, Sequences, FiniteSets, TLC

\* ------------------------------------------------------------ configuration
INITIAL_CASH == 1000000
BASE_PER_PERCENT == 10000
SYMBOLS == <<"BTC/USD", "ETH/USD", "SOL/USD">>

SymSet == {SYMBOLS[i] : i \in 1..Len(SYMBOLS)}

\* symbol.split("/")[0]
Asset(sym) ==
    CASE sym = "BTC/USD" -> "BTC"
      [] sym = "ETH/USD" -> "ETH"
      [] sym = "SOL/USD" -> "SOL"

\* ------------------------------------------------------------ bounds
\* The simulator's prices are kept on base + k * Tick, k \in 0..MaxTicks.
MaxTicks == 2

\* create_order calls of kz_bot.py's TradingBot that the model follows
MaxOrders == 4

\* ------------------------------------------------------------ arithmetic
Abs(x) == IF x < 0 THEN -x ELSE x

RECURSIVE GCD(_, _)
GCD(a, b) == IF b = 0 THEN a ELSE GCD(b, a % b)

\* the number n/d (d # 0), in lowest terms with a positive denominator
Rat(n, d) ==
    LET g == GCD(Abs(n), Abs(d))
        s == IF d < 0 THEN -1 ELSE 1
    IN  [n |-> s * (n \div g), d |-> s * (d \div g)]

IntRat(i) == [n |-> i, d |-> 1]
RatAdd(a, b) == Rat(a.n * b.d + b.n * a.d, a.d * b.d)
RatNeg(a) == [n |-> -a.n, d |-> a.d]
RatSub(a, b) == RatAdd(a, RatNeg(b))
RatMul(a, b) ==
    LET x == Rat(a.n, b.d)
        y == Rat(b.n, a.d)
    IN  [n |-> x.n * y.n, d |-> x.d * y.d]
RatDiv(a, b) == RatMul(a, Rat(b.d, b.n))
\* a < b, comparing the integer parts first so that no product overflows
RatLt(a, b) ==
    LET fa == a.n \div a.d
        fb == b.n \div b.d
    IN  \/ fa < fb
        \/ fa = fb /\ (a.n % a.d) * b.d < (b.n % b.d) * a.d
RatGt(a, b) == RatLt(b, a)
RatLe(a, b) == ~RatLt(b, a)
RatAbs(a) == [n |-> Abs(a.n), d |-> a.d]

\* ------------------------------------------------------------ dictionaries
EmptyDict == [k \in {} |-> 0]
Put(dict, k, v) == [x \in DOMAIN dict \cup {k} |-> IF x = k THEN v ELSE dict[x]]
\* dict.get(k, default)
Get(dict, k, default) == IF k \in DOMAIN dict THEN dict[k] ELSE default

VARIABLES
    FORCE_HORUS_422,  \* environment flag, fixed at start-up
    DRY_RUN,          \* environment flag, fixed at start-up
    peak,             \* RiskManager.peak
    today_pnl,        \* RiskManager.today_pnl
    mock,             \* MockMarket: [prices, prev_prices]
    pc,               \* position of run()/step()
    idx,              \* index into SYMBOLS of the loop at pc
    prices,           \* step: prices
    balance,          \* step: balance
    positions,        \* step: positions
    total_value,      \* step: total_value
    momentum_targets, \* step: momentum_targets
    rets,             \* step: ret of each symbol
    diffs,            \* step: diff_usd of each symbol, before and after the cap
    orders,           \* the place_order calls of this cycle, in order
    check_result,     \* what RiskManager.check returned in this cycle
    last_fetch,       \* the last fetch_price call: source used and outcome
    last_result,      \* what the last place_order call returned
    cycle_start,      \* MockMarket.prices when this cycle began
    seen_max,         \* largest of INITIAL_CASH and the totals given to check
    fetched,          \* step: what get_market_price answered for each symbol
    first_cycle,      \* no step has returned yet
    KZ_DRY_RUN,       \* kz_bot.py: DRY_RUN, fixed at start-up
    TRADE_AMOUNT,     \* kz_bot.py: environment value, in thousandths of a coin
    position,         \* kz_bot.py: TradingBot.position, in thousandths
    kz_orders,        \* kz_bot.py: the create_order calls made so far
    kz_last           \* kz_bot.py: the last TradingBot.step call

vars == <<FORCE_HORUS_422, DRY_RUN, peak, today_pnl, mock, pc, idx, prices,
          balance, positions, total_value, momentum_targets, rets, diffs,
          orders, check_result, last_fetch, last_result, cycle_start,
          seen_max, fetched, first_cycle, KZ_DRY_RUN, TRADE_AMOUNT, position,
          kz_orders, kz_last>>

\* the state of kz_bot.py's TradingBot, a separate program
kzvars == <<KZ_DRY_RUN, TRADE_AMOUNT, position, kz_orders, kz_last>>

\* ------------------------------------------------------------ MockMarket
MockInit ==
    LET p == [s \in SymSet |->
                CASE s = "BTC/USD" -> 68000
                  [] s = "ETH/USD" -> 3500
                  [] s = "SOL/USD" -> 180]
    IN  [prices |-> p, prev_prices |-> p]

\* the grid step of a symbol: 1% of its baseline price, rounded down
Tick(s) == MockInit.prices[s] \div 100

\* Whether moving the price p of symbol s by k grid steps is an outcome of
\* p * (1 + random.uniform(-0.01, 0.01)) that stays on the grid.
OnGrid(s, p, k) ==
    /\ 100 * Abs(k * Tick(s)) <= p
    /\ p + k * Tick(s) >= MockInit.prices[s]
    /\ p + k * Tick(s) <= MockInit.prices[s] + MaxTicks * Tick(s)

\* The draws of one update that the model explores, one change per symbol:
\* every symbol moves by the same number k of its grid steps, k in -1, 0, 1.
Changes(m) ==
    {[s \in SymSet |-> Rat(k * Tick(s), m.prices[s])] : k \in
        {j \in {-1, 0, 1} : \A s \in SymSet : OnGrid(s, m.prices[s], j)}}

\* MockMarket.update with the draws `change`
update(m, change) ==
    [prev_prices |-> m.prices,
     prices |-> [s \in SymSet |->
                   RatMul(IntRat(m.prices[s]), RatAdd(IntRat(1), change[s])).n]]

get_price(m, sym) == m.prices[sym]

get_return(m, sym) == RatSub(Rat(m.prices[sym], m.prev_prices[sym]), IntRat(1))

\* ------------------------------------------------------------ HorusClient
\* get_latest_price(asset): a quote, or an exception
Quotes(sym) ==
    {[ok |-> FALSE, price |-> 0],
     [ok |-> TRUE,
      price |-> CASE sym = "BTC/USD" -> 70000
                  [] sym = "ETH/USD" -> 3600
                  [] sym = "SOL/USD" -> 190]}

\* ------------------------------------------------------------ ExchangeClient
\* fetch_price without the try/except of lines 95-101
fetch_price_NoExcept(symbol, m, quote, change) ==
    IF FORCE_HORUS_422
    THEN LET m2 == update(m, change)
         IN  [raised |-> FALSE, value |-> get_price(m2, symbol), mock |-> m2,
              primary |-> "skipped"]
    ELSE IF quote.ok
         THEN [raised |-> FALSE, value |-> quote.price, mock |-> m,
               primary |-> "ok"]
         ELSE [raised |-> TRUE, value |-> 0, mock |-> m, primary |-> "failed"]

\* fetch_price without the FORCE_HORUS_422 branch of lines 91-93
fetch_price_NoForce(symbol, m, quote, change) ==
    IF quote.ok
    THEN [raised |-> FALSE, value |-> quote.price, mock |-> m, primary |-> "ok"]
    ELSE LET m2 == update(m, change)
         IN  [raised |-> FALSE, value |-> get_price(m2, symbol), mock |-> m2,
              primary |-> "failed"]

\* fetch_price(symbol) with the primary source answering `quote` and the
\* simulator drawing `change`: the value returned (or raised), the simulator
\* afterwards, and what happened to the primary source.
fetch_price(symbol, m, quote, change) ==
    IF FORCE_HORUS_422
    THEN LET m2 == update(m, change)
         IN  [raised |-> FALSE, value |-> get_price(m2, symbol), mock |-> m2,
              primary |-> "skipped"]
    ELSE IF quote.ok
         THEN [raised |-> FALSE, value |-> quote.price, mock |-> m,
               primary |-> "ok"]
         ELSE LET m2 == update(m, change)
              IN  [raised |-> FALSE, value |-> get_price(m2, symbol), mock |-> m2,
                   primary |-> "failed"]

\* get_market_price(pair, limit=2): the two latest closes, most recent first,
\* or an exception
MarketData ==
    {[ok |-> FALSE, close0 |-> 0, close1 |-> 0],
     [ok |-> TRUE, close0 |-> 101, close1 |-> 100],
     [ok |-> TRUE, close0 |-> 2001, close1 |-> 2000],
     [ok |-> TRUE, close0 |-> 99, close1 |-> 100],
     [ok |-> TRUE, close0 |-> 100, close1 |-> 0]}

\* ------------------------------------------------------------ RoostooClient
\* get_balance() of a live account: the wallets the model draws ({} is also
\* what get_balance returns when the request fails)
Wallets ==
    {EmptyDict,
     [a \in {"USD"} |-> 1136000],
     [a \in {"USD", "BTC", "ETH", "SOL"} |->
        CASE a = "USD" -> 730000 [] a = "BTC" -> 2 [] a = "ETH" -> 15
          [] a = "SOL" -> 200],
     [a \in {"USD", "BTC"} |-> IF a = "USD" THEN 500000 ELSE 6],
     [a \in {"USD", "BTC"} |-> IF a = "USD" THEN 638000 ELSE 5],
     [a \in {"USD", "BTC"} |-> IF a = "USD" THEN 700000 ELSE 6]}

\* ------------------------------------------------------------ RiskManager
max_drawdown == Rat(10, 100)
max_per_asset == Rat(35, 100)
daily_loss_limit == Rat(4, 100)

Max(a, b) == IF a >= b THEN a ELSE b

\* check without the drawdown rule of lines 39-41
check_NoDrawdown(pk, pnl, total, pos) ==
    LET p2 == Max(pk, total)
    IN  IF DOMAIN pos # {} /\ total = 0
        THEN [peak |-> p2, raised |-> TRUE, ok |-> FALSE]
        ELSE IF \E s \in DOMAIN pos : RatGt(Rat(pos[s], total), max_per_asset)
        THEN [peak |-> p2, raised |-> FALSE, ok |-> FALSE]
        ELSE [peak |-> p2, raised |-> FALSE, ok |-> TRUE]

\* check without the exposure rule of lines 43-46
check_NoExposure(pk, pnl, total, pos) ==
    LET p2 == Max(pk, total)
    IN  IF RatGt(Rat(p2 - total, p2), max_drawdown)
        THEN [peak |-> p2, raised |-> FALSE, ok |-> FALSE]
        ELSE [peak |-> p2, raised |-> FALSE, ok |-> TRUE]

\* check that moves the peak only in a call that returns True
check_PeakOnAllow(pk, pnl, total, pos) ==
    LET p2 == Max(pk, total)
    IN  IF RatGt(Rat(p2 - total, p2), max_drawdown)
        THEN [peak |-> pk, raised |-> FALSE, ok |-> FALSE]
        ELSE IF DOMAIN pos # {} /\ total = 0
        THEN [peak |-> pk, raised |-> TRUE, ok |-> FALSE]
        ELSE IF \E s \in DOMAIN pos : RatGt(Rat(pos[s], total), max_per_asset)
        THEN [peak |-> pk, raised |-> FALSE, ok |-> FALSE]
        ELSE [peak |-> p2, raised |-> FALSE, ok |-> TRUE]

\* RiskManager.check: the new peak, and the value returned (or raised: a
\* division by a zero total_value)
check(pk, pnl, total, pos) ==
    LET p2 == Max(pk, total)
    IN  IF RatGt(Rat(p2 - total, p2), max_drawdown)
        THEN [peak |-> p2, raised |-> FALSE, ok |-> FALSE]
        ELSE IF DOMAIN pos # {} /\ total = 0
        THEN [peak |-> p2, raised |-> TRUE, ok |-> FALSE]
        ELSE IF \E s \in DOMAIN pos : RatGt(Rat(pos[s], total), max_per_asset)
        THEN [peak |-> p2, raised |-> FALSE, ok |-> FALSE]
        ELSE IF RatLt(IntRat(pnl),
                      RatNeg(RatMul(daily_loss_limit, IntRat(INITIAL_CASH))))
        THEN [peak |-> p2, raised |-> FALSE, ok |-> FALSE]
        ELSE [peak |-> p2, raised |-> FALSE, ok |-> TRUE]

\* ------------------------------------------------------------ ExchangeClient
DryRunBalance ==
    [a \in {"USD", "BTC", "ETH", "SOL"} |->
        CASE a = "USD" -> 500000 [] a = "BTC" -> 2 [] a = "ETH" -> 15
          [] a = "SOL" -> 200]

get_balance(wallet) == IF DRY_RUN THEN DryRunBalance ELSE wallet

\* place_order(symbol, side, amount) with the venue answering `venue_ok`:
\* what the call returns; it never raises
\* place_order without the try/except of lines 114-117
place_order_NoExcept(symbol, side, amount, venue_ok) ==
    IF amount.n = 0 THEN "none"
    ELSE IF DRY_RUN THEN "filled"
    ELSE IF venue_ok THEN "ack"
    ELSE "raised"

place_order(symbol, side, amount, venue_ok) ==
    IF amount.n = 0 THEN "none"
    ELSE IF DRY_RUN THEN "filled"
    ELSE IF venue_ok THEN "ack"
    ELSE "none"

\* ------------------------------------------------------------ step
RECURSIVE SumValues(_, _)
SumValues(pos, i) ==
    IF i = 0 THEN 0 ELSE pos[SYMBOLS[i]] + SumValues(pos, i - 1)

\* positions valued at the simulator's price instead of the cycle's price
Positions_Stale(bal, px) ==
    [sym \in SymSet |-> Get(bal, Asset(sym), 0) * mock.prices[sym]]

\* lines 136-138
Positions(bal, px) ==
    [sym \in SymSet |-> Get(bal, Asset(sym), 0) * px[sym]]

\* ret that falls back on the simulator's return when the fetch fails
Ret_MockOnFailure(sym, m, data) ==
    IF FORCE_HORUS_422
    THEN get_return(m, sym)
    ELSE IF data.ok /\ data.close1 # 0
         THEN RatSub(Rat(data.close0, data.close1), IntRat(1))
         ELSE get_return(m, sym)

\* lines 151-159: ret of one symbol
Ret(sym, m, data) ==
    IF FORCE_HORUS_422
    THEN get_return(m, sym)
    ELSE IF data.ok /\ data.close1 # 0
         THEN RatSub(Rat(data.close0, data.close1), IntRat(1))
         ELSE IntRat(0)

\* line 161
TargetUsd(ret) == RatMul(RatMul(ret, IntRat(BASE_PER_PERCENT)), IntRat(100))

\* the rebalancing loop without the cap of lines 171-172
CapDiff_NoCap(current_usd, diff_usd, total) == diff_usd

\* lines 168-172: diff_usd after the cap
\* the rewrite of line 172 applied without the test of line 171
CapDiff_Always(current_usd, diff_usd, total) ==
    RatSub(RatMul(IntRat(total), max_per_asset), IntRat(current_usd))

CapDiff(current_usd, diff_usd, total) ==
    IF RatGt(RatAdd(IntRat(current_usd), diff_usd),
             RatMul(IntRat(total), Rat(35, 100)))
    THEN RatSub(RatMul(IntRat(total), Rat(35, 100)), IntRat(current_usd))
    ELSE diff_usd

\* the dead-band test with >= in place of >
OutsideDeadBand_Inclusive(diff_usd) == ~RatLt(RatAbs(diff_usd), IntRat(500))

\* line 174
OutsideDeadBand(diff_usd) == RatGt(RatAbs(diff_usd), IntRat(500))

\* line 176
Side(amount) == IF amount.n > 0 THEN "buy" ELSE "sell"

\* a peak that starts below the first snapshot instead of at INITIAL_CASH
InitialPeak_Low == INITIAL_CASH \div 2

\* RiskManager.__init__, line 34
InitialPeak == INITIAL_CASH

\* the momentum branch of lines 152-153 fetches no market data
NoData == [ok |-> FALSE, close0 |-> 0, close1 |-> 0]

NoFetch == [sym |-> "", primary |-> "none", raised |-> FALSE, value |-> 0]

\* kz_bot.py: no TradingBot.step call made yet
NoStep == [raised |-> FALSE, before |-> 0]

\* kz_bot.py with its default environment, not stepping
KzIdle ==
    /\ KZ_DRY_RUN = TRUE
    /\ TRADE_AMOUNT = 1
    /\ position = 0
    /\ kz_orders = <<>>
    /\ kz_last = NoStep

Init ==
    /\ KzIdle
    /\ FORCE_HORUS_422 \in BOOLEAN
    /\ DRY_RUN \in BOOLEAN
    /\ peak = InitialPeak
    /\ today_pnl = 0
    /\ mock = MockInit
    /\ pc = "fetch"
    /\ idx = 1
    /\ prices = EmptyDict
    /\ balance = EmptyDict
    /\ positions = EmptyDict
    /\ total_value = 0
    /\ momentum_targets = EmptyDict
    /\ rets = EmptyDict
    /\ diffs = EmptyDict
    /\ orders = <<>>
    /\ check_result = "none"
    /\ last_fetch = NoFetch
    /\ last_result = "none"
    /\ cycle_start = MockInit.prices
    /\ seen_max = INITIAL_CASH
    /\ fetched = EmptyDict
    /\ first_cycle = TRUE

\* step, line 129: one fetch_price call of the dict comprehension
FetchPrice ==
    /\ pc = "fetch"
    /\ \E quote \in Quotes(SYMBOLS[idx]), change \in Changes(mock) :
         LET sym == SYMBOLS[idx]
             r == fetch_price(sym, mock, quote, change)
         IN  /\ mock' = r.mock
             /\ last_fetch' = [sym |-> sym, primary |-> r.primary,
                               raised |-> r.raised, value |-> r.value]
             /\ IF r.raised
                THEN pc' = "except" /\ UNCHANGED <<prices, idx>>
                ELSE /\ prices' = Put(prices, sym, r.value)
                     /\ IF idx < Len(SYMBOLS)
                        THEN idx' = idx + 1 /\ pc' = "fetch"
                        ELSE idx' = 1 /\ pc' = "balance"
    /\ UNCHANGED <<FORCE_HORUS_422, DRY_RUN, peak, today_pnl, balance,
                   positions, total_value, momentum_targets, rets, diffs,
                   orders, check_result, last_result, cycle_start,
                   seen_max, fetched, first_cycle, kzvars>>

\* a step that books the cycle's profit or loss in RiskManager.today_pnl
Frame_BooksPnl ==
    /\ today_pnl' = total_value' - INITIAL_CASH
    /\ UNCHANGED <<FORCE_HORUS_422, DRY_RUN, cycle_start, first_cycle, kzvars>>

\* what step leaves alone outside its own locals
Frame ==
    UNCHANGED <<FORCE_HORUS_422, DRY_RUN, today_pnl, cycle_start, first_cycle,
                kzvars>>

\* step, lines 133-141: the balance and the snapshot.  `numeric` is whether
\* every quantity of the wallet is a number; the product of line 138 raises
\* when one is not.
Snapshot ==
    /\ pc = "balance"
    /\ \E wallet \in Wallets, numeric \in BOOLEAN :
         LET bal == get_balance(wallet)
             pos == Positions(bal, prices)
         IN  /\ balance' = bal
             /\ IF ~DRY_RUN /\ ~numeric /\ bal # EmptyDict
                THEN pc' = "except" /\ UNCHANGED <<positions, total_value>>
                ELSE /\ positions' = pos
                     /\ total_value' = Get(bal, "USD", 0)
                                        + SumValues(pos, Len(SYMBOLS))
                     /\ pc' = "risk"
    /\ Frame
    /\ UNCHANGED <<peak, mock, idx, prices, momentum_targets, rets, diffs,
                   orders, check_result, last_fetch, last_result, seen_max,
                   fetched>>

\* a veto that does not return from step
AfterVeto_Continue == "momentum"

\* where step goes when the risk check vetoes the cycle (line 146)
AfterVeto == "sleep"

\* step, lines 144-146
RiskCheck ==
    /\ pc = "risk"
    /\ LET r == check(peak, today_pnl, total_value, positions)
       IN  /\ peak' = r.peak
           /\ IF r.raised
              THEN pc' = "except" /\ UNCHANGED check_result
              ELSE IF r.ok
                   THEN pc' = "momentum" /\ check_result' = "allow"
                   ELSE pc' = AfterVeto /\ check_result' = "veto"
    /\ Frame
    /\ seen_max' = IF total_value > seen_max THEN total_value ELSE seen_max
    /\ UNCHANGED <<mock, idx, prices, balance, positions, total_value,
                   momentum_targets, rets, diffs, orders, last_fetch,
                   last_result, fetched>>

\* step, lines 150-162: one iteration of the momentum loop
Momentum ==
    /\ pc = "momentum"
    /\ \E data \in MarketData :
         LET sym == SYMBOLS[idx]
             ret == Ret(sym, mock, data)
         IN  /\ rets' = Put(rets, sym, ret)
             /\ fetched' = Put(fetched, sym,
                               IF FORCE_HORUS_422 THEN NoData ELSE data)
             /\ momentum_targets' =
                  Put(momentum_targets, sym,
                      RatAdd(IntRat(positions[sym]), TargetUsd(ret)))
    /\ IF idx < Len(SYMBOLS)
       THEN idx' = idx + 1 /\ pc' = "momentum"
       ELSE idx' = 1 /\ pc' = "rebalance"
    /\ Frame
    /\ UNCHANGED <<peak, mock, prices, balance, positions, total_value,
                   diffs, orders, check_result, last_fetch, last_result,
                   seen_max>>

\* step, lines 167-178: one iteration of the rebalancing loop
Rebalance ==
    /\ pc = "rebalance"
    /\ \E venue_ok \in BOOLEAN :
         LET sym == SYMBOLS[idx]
             current_usd == positions[sym]
             diff0 == RatSub(momentum_targets[sym], IntRat(current_usd))
             diff_usd == CapDiff(current_usd, diff0, total_value)
             amount == RatDiv(diff_usd, IntRat(prices[sym]))
             result == IF OutsideDeadBand(diff_usd)
                       THEN place_order(sym, Side(amount), amount, venue_ok)
                       ELSE "none"
         IN  /\ diffs' = Put(diffs, sym, [before |-> diff0, after |-> diff_usd])
             /\ IF OutsideDeadBand(diff_usd)
                THEN /\ orders' = Append(orders,
                                         [symbol |-> sym, side |-> Side(amount),
                                          amount |-> RatAbs(amount),
                                          result |-> result])
                     /\ last_result' = result
                ELSE UNCHANGED <<orders, last_result>>
             /\ IF result = "raised"
                THEN idx' = idx /\ pc' = "except"
                ELSE IF idx < Len(SYMBOLS)
                     THEN idx' = idx + 1 /\ pc' = "rebalance"
                     ELSE idx' = 1 /\ pc' = "sleep"
    /\ Frame
    /\ UNCHANGED <<peak, mock, prices, balance, positions, total_value,
                   momentum_targets, rets, check_result, last_fetch,
                   seen_max, fetched>>

\* step without its try/except: the exception leaves step and ends run()
StepHandler_Reraise == "crashed"

\* where an exception raised inside step's try block ends up (lines 180-181)
StepHandler == "sleep"

\* step, lines 180-181: the exception is logged and step returns
Except ==
    /\ pc = "except"
    /\ pc' = StepHandler
    /\ Frame
    /\ UNCHANGED <<peak, mock, idx, prices, balance, positions, total_value,
                   momentum_targets, rets, diffs, orders, check_result,
                   last_fetch, last_result, seen_max, fetched>>

\* run, lines 184-186: step has returned; sleep, then the next step begins
Sleep ==
    /\ pc = "sleep"
    /\ pc' = "fetch"
    /\ idx' = 1
    /\ prices' = EmptyDict
    /\ balance' = EmptyDict
    /\ positions' = EmptyDict
    /\ total_value' = 0
    /\ momentum_targets' = EmptyDict
    /\ rets' = EmptyDict
    /\ diffs' = EmptyDict
    /\ orders' = <<>>
    /\ check_result' = "none"
    /\ last_fetch' = NoFetch
    /\ last_result' = "none"
    /\ cycle_start' = mock.prices
    /\ fetched' = EmptyDict
    /\ first_cycle' = FALSE
    /\ UNCHANGED <<FORCE_HORUS_422, DRY_RUN, peak, today_pnl, mock, seen_max,
                   kzvars>>

Next ==
    \/ FetchPrice
    \/ Snapshot
    \/ RiskCheck
    \/ Momentum
    \/ Rebalance
    \/ Except
    \/ Sleep

Spec == Init /\ [][Next]_vars

\* run() is a while True loop on one thread: the handler of lines 180-181
\* and the sleep of line 186 make no external call and always complete.  The
\* other steps wait on network calls and are given no fairness.
FairSpec == Spec /\ WF_vars(Except) /\ WF_vars(Sleep)

\* ------------------------------------------------------------ kz_bot.py
\* TRADE_AMOUNT values of the environment, in thousandths of a coin (the
\* default "0.001" is 1)
TradeAmounts == {-1, 0, 1, 2}

\* what the last bar of generate_signals gives (lines 99-108)
Signals == {-1, 0, 1}

\* ExchangeClient.create_order, lines 68-88: a simulated order in dry-run
\* mode, else the exchange's order or its exception re-raised.  The
\* exchange accepts positive amounts only.
create_order(side, amount, venue_ok) ==
    IF KZ_DRY_RUN THEN "simulated"
    ELSE IF venue_ok /\ amount > 0 THEN "order"
    ELSE "raised"

KzInit ==
    /\ KZ_DRY_RUN \in BOOLEAN
    /\ TRADE_AMOUNT \in TradeAmounts
    /\ position = 0
    /\ kz_orders = <<>>
    /\ kz_last = NoStep

\* TradingBot.step, lines 152-175.  data_ok is false when fetch_recent,
\* generate_signals or the conversion of line 156 raises.
KzStep ==
    /\ Len(kz_orders) < MaxOrders
    /\ \E data_ok \in BOOLEAN, signal \in Signals, venue_ok \in BOOLEAN :
         IF ~data_ok
         THEN /\ kz_last' = [raised |-> TRUE, before |-> position]
              /\ UNCHANGED <<position, kz_orders>>
         ELSE IF signal = 1 /\ position = 0
         THEN LET amount == TRADE_AMOUNT
                  order == create_order("buy", amount, venue_ok)
                  after == IF order \in {"raised", "none"}
                           THEN position ELSE position + amount
              IN  /\ position' = after
                  /\ kz_orders' = Append(kz_orders,
                        [side |-> "buy", amount |-> amount, signal |-> signal,
                         before |-> position, after |-> after,
                         result |-> order])
                  /\ kz_last' = [raised |-> order = "raised",
                                 before |-> position]
         ELSE IF signal = -1 /\ position > 0
         THEN LET amount == position
                  order == create_order("sell", amount, venue_ok)
                  after == IF order \in {"raised", "none"}
                           THEN position ELSE 0
              IN  /\ position' = after
                  /\ kz_orders' = Append(kz_orders,
                        [side |-> "sell", amount |-> amount, signal |-> signal,
                         before |-> position, after |-> after,
                         result |-> order])
                  /\ kz_last' = [raised |-> order = "raised",
                                 before |-> position]
         ELSE /\ kz_last' = [raised |-> FALSE, before |-> position]
              /\ UNCHANGED <<position, kz_orders>>
    /\ UNCHANGED <<KZ_DRY_RUN, TRADE_AMOUNT>>
    /\ UNCHANGED <<FORCE_HORUS_422, DRY_RUN, peak, today_pnl, mock, pc, idx,
                   prices, balance, positions, total_value, momentum_targets,
                   rets, diffs, orders, check_result, last_fetch, last_result,
                   cycle_start, seen_max, fetched, first_cycle>>

\* kz_bot.py started on its own; kz_bot2.py is not running
KzStart ==
    /\ KzInit
    /\ FORCE_HORUS_422 = TRUE
    /\ DRY_RUN = TRUE
    /\ peak = InitialPeak
    /\ today_pnl = 0
    /\ mock = MockInit
    /\ pc = "fetch"
    /\ idx = 1
    /\ prices = EmptyDict
    /\ balance = EmptyDict
    /\ positions = EmptyDict
    /\ total_value = 0
    /\ momentum_targets = EmptyDict
    /\ rets = EmptyDict
    /\ diffs = EmptyDict
    /\ orders = <<>>
    /\ check_result = "none"
    /\ last_fetch = NoFetch
    /\ last_result = "none"
    /\ cycle_start = MockInit.prices
    /\ seen_max = INITIAL_CASH
    /\ fetched = EmptyDict
    /\ first_cycle = TRUE

KzNext == KzStep

KzSpec == KzStart /\ [][KzNext]_vars

\* ------------------------------------------------------------ properties
Ordered(sym) == \E i \in 1..Len(orders) : orders[i].symbol = sym

\* C1: whenever the drawdown from the updated peak exceeds 10%, check has
\* returned false, whatever the positions and however the peak was set.
C1_DrawdownVetoes ==
    (check_result # "none" /\ 10 * (peak - total_value) > peak)
        => check_result = "veto"

C1_Witness ==
    /\ check_result = "veto"
    /\ peak = 1136000
    /\ total_value = 954500
    /\ \A s \in SymSet : 20 * positions[s] <= 7 * total_value

\* C2: whenever some symbol's position value exceeds 35% of the total value,
\* check has returned false, whatever the peak and the other positions.
C2_ExposureVetoes ==
    (/\ check_result # "none"
     /\ total_value > 0
     /\ \E s \in SymSet : 20 * positions[s] > 7 * total_value)
        => check_result = "veto"

C2_Witness ==
    /\ check_result = "veto"
    /\ 10 * (peak - total_value) <= peak
    /\ 20 * positions["BTC/USD"] > 7 * total_value
    /\ 20 * positions["ETH/USD"] <= 7 * total_value

\* the value of the position in sym that the cycle's order for sym, if any,
\* leads to
PostOrderValue(sym) ==
    IF Ordered(sym)
    THEN RatAdd(IntRat(positions[sym]), diffs[sym].after)
    ELSE IntRat(positions[sym])

WithinCap(sym) == RatLe(PostOrderValue(sym), Rat(7 * total_value, 20))

\* C3 as stated: in every cycle, for every symbol, the position value after
\* the emitted order (the current value when there is none) is at most 35% of
\* the total value.
C3_Original ==
    (pc = "sleep" /\ positions # EmptyDict) => \A sym \in SymSet : WithinCap(sym)

\* C3 amended: the same, in every cycle that passes the risk check.
C3_CapAfterOrder ==
    check_result = "allow" => \A sym \in DOMAIN diffs : WithinCap(sym)

C3_Witness ==
    /\ check_result = "allow"
    /\ \E sym \in DOMAIN diffs :
         /\ Ordered(sym)
         /\ diffs[sym].after # diffs[sym].before
         /\ PostOrderValue(sym) = Rat(7 * total_value, 20)

\* C4: every order placed trades a value of more than 500 in absolute terms,
\* and a cycle whose targets all equal the current values places no order.
C4_NoOrderInDeadBand ==
    /\ \A i \in 1..Len(orders) :
         LET d == diffs[orders[i].symbol].after
         IN  Abs(d.n) > 500 * d.d
    /\ (/\ pc = "sleep"
        /\ check_result = "allow"
        /\ \A sym \in SymSet : momentum_targets[sym] = IntRat(positions[sym]))
           => orders = <<>>

C4_Witness ==
    /\ pc = "sleep"
    /\ Len(orders) > 0
    /\ \E sym \in SymSet : ~Ordered(sym) /\ diffs[sym].after = IntRat(500)

\* C5: a cycle that check vetoes places no order, and the loop goes on to
\* the next cycle.
C5_VetoPlacesNoOrder ==
    /\ [](check_result = "veto" => orders = <<>>)
    /\ (check_result = "veto") ~> (pc = "fetch" /\ check_result = "none")

C5_Witness ==
    /\ check_result = "veto"
    /\ pc = "sleep"
    /\ \E s \in SymSet : mock.prices[s] # mock.prev_prices[s]

\* C6: no failure inside a cycle leaves step: step returns and run() goes on
\* to the next cycle.
C6_StepNeverRaises ==
    /\ [](pc \in {"fetch", "balance", "risk", "momentum", "rebalance",
                  "except", "sleep"})
    /\ (pc = "except") ~> (pc = "fetch")

C6_Witness == pc = "sleep" /\ balance # EmptyDict /\ positions = EmptyDict

\* C7 as stated: over one cycle the simulator's price of every symbol changes
\* by at most 1% of its value at the end of the previous cycle.
C7_Original ==
    pc = "sleep" =>
        \A s \in SymSet :
            100 * Abs(mock.prices[s] - cycle_start[s]) <= cycle_start[s]

\* C8 as stated: in forced-fallback mode every order that is not clamped is
\* sized from the price p = previousPrice * (1 + r) of the move that the
\* return r measures, quantity = (r * 10,000 * 100) / p, and is a buy exactly
\* when r > 0.
C8_Original ==
    FORCE_HORUS_422 =>
        \A i \in 1..Len(orders) :
            LET sym == orders[i].symbol
                r == rets[sym]
                p == prices[sym]
            IN  diffs[sym].after = diffs[sym].before =>
                    /\ IntRat(p) = RatMul(IntRat(mock.prev_prices[sym]),
                                          RatAdd(IntRat(1), r))
                    /\ orders[i].amount =
                         RatAbs(RatDiv(RatMul(r, IntRat(1000000)), IntRat(p)))
                    /\ (orders[i].side = "buy") <=> (r.n > 0)

\* C9 as stated: a fetch_price call for one symbol leaves the simulator's
\* current and previous prices of every other symbol unchanged.
C9_Original ==
    [][pc = "fetch" =>
         \A s \in SymSet \ {SYMBOLS[idx]} :
             /\ mock'.prices[s] = mock.prices[s]
             /\ mock'.prev_prices[s] = mock.prev_prices[s]]_vars

\* C10: fetch_price never raises, and when the primary source fails it
\* returns the simulator's price of the symbol.
C10_FetchPriceFallsBack ==
    /\ ~last_fetch.raised
    /\ last_fetch.primary = "failed" =>
           last_fetch.value = mock.prices[last_fetch.sym]

C10_Witness ==
    /\ last_fetch.primary = "failed"
    /\ last_fetch.sym = "ETH/USD"
    /\ last_fetch.value = 3535

\* C11: with forced fallback on, every fetch_price call skips the primary
\* source and returns the simulator's price of the symbol.
C11_ForcedFallbackSkipsPrimary ==
    (FORCE_HORUS_422 /\ last_fetch.primary # "none") =>
        /\ last_fetch.primary = "skipped"
        /\ last_fetch.value = mock.prices[last_fetch.sym]

C11_Witness ==
    /\ FORCE_HORUS_422
    /\ last_fetch.primary = "skipped"
    /\ last_fetch.sym = "SOL/USD"
    /\ last_fetch.value = 182

\* place_order calls of the cycle made for sym
Attempts(sym) == Cardinality({i \in 1..Len(orders) : orders[i].symbol = sym})

\* C12: in live mode, at the end of a cycle that rebalanced, place_order was
\* attempted exactly once for every symbol whose diff is outside the
\* dead-band and never for the others, whichever submissions failed.
C12_FailedOrderDoesNotStopOthers ==
    (~DRY_RUN /\ check_result = "allow" /\ pc \in {"sleep", "except"}) =>
        /\ pc = "sleep"
        /\ DOMAIN diffs = SymSet
        /\ \A sym \in SymSet :
             Attempts(sym) = IF OutsideDeadBand(diffs[sym].after) THEN 1 ELSE 0

C12_Witness ==
    /\ ~DRY_RUN
    /\ pc = "sleep"
    /\ Len(orders) = 3
    /\ orders[1].result = "none"
    /\ orders[2].result = "none"
    /\ orders[3].result = "ack"

\* C13: in a cycle that passed the risk gate the cap branch only shrinks a
\* buy: a rewritten diff was positive and becomes a value between 0 and the
\* original, and a diff that is not positive is left as it is.
C13_ClampOnlyReducesBuy ==
    check_result = "allow" =>
        \A sym \in DOMAIN diffs :
            LET before == diffs[sym].before
                after  == diffs[sym].after
            IN  /\ after # before =>
                     /\ before.n > 0
                     /\ after.n >= 0
                     /\ RatLe(after, before)
                /\ before.n <= 0 => after = before
                /\ \A i \in 1..Len(orders) :
                     orders[i].symbol = sym =>
                        (orders[i].side = "buy" <=> before.n > 0)

C13_Witness ==
    /\ check_result = "allow"
    /\ \E buy, sell \in DOMAIN diffs :
         /\ diffs[buy].before.n > 0
         /\ diffs[buy].after.n > 0
         /\ RatLt(diffs[buy].after, diffs[buy].before)
         /\ diffs[sell].before.n < 0
         /\ \E i, j \in 1..Len(orders) :
              /\ orders[i].symbol = buy /\ orders[i].side = "buy"
              /\ orders[j].symbol = sell /\ orders[j].side = "sell"

\* quantity of an asset in the balance of the cycle, 0 when it is not listed
Held(asset) == IF asset \in DOMAIN balance THEN balance[asset] ELSE 0

\* C14: the snapshot values every configured symbol at quantity held times
\* the price resolved this cycle, an unlisted asset counting as 0; no value
\* is negative and total_value is the cash plus the sum of the values.
C14_SnapshotValues ==
    positions # EmptyDict =>
        /\ DOMAIN positions = SymSet
        /\ \A sym \in SymSet :
             /\ positions[sym] = Held(Asset(sym)) * prices[sym]
             /\ positions[sym] >= 0
        /\ total_value = Held("USD") + positions["BTC/USD"]
                           + positions["ETH/USD"] + positions["SOL/USD"]

C14_Witness ==
    /\ pc = "risk"
    /\ DOMAIN balance = {"USD", "BTC"}
    /\ positions["ETH/USD"] = 0
    /\ balance["BTC"] = 6
    /\ prices["BTC/USD"] = 70000
    /\ mock.prices["BTC/USD"] = 68000
    /\ positions["BTC/USD"] = 420000
    /\ total_value = 920000

\* C15: peak is a high-water mark: no step lowers it, and it always equals
\* the largest of INITIAL_CASH and every total_value given to check so far,
\* the calls that ended in a veto included.
C15_PeakIsHighWaterMark ==
    /\ [](peak = seen_max)
    /\ [][peak' >= peak]_vars

C15_Witness ==
    /\ check_result = "veto"
    /\ cycle_start["BTC/USD"] = 68680
    /\ total_value = 1112080
    /\ peak = 1112080

\* C16: with forced fallback off, a symbol whose market-data fetch failed
\* gets ret 0, a target equal to its current position value and no order,
\* while every symbol whose fetch succeeded keeps the return of its own data.
C16_FailedMomentumFetchIsZero ==
    ~FORCE_HORUS_422 =>
        \A sym \in DOMAIN fetched :
            /\ ~fetched[sym].ok =>
                 /\ rets[sym] = IntRat(0)
                 /\ momentum_targets[sym] = IntRat(positions[sym])
                 /\ ~Ordered(sym)
            /\ (fetched[sym].ok /\ fetched[sym].close1 # 0) =>
                 rets[sym] = Rat(fetched[sym].close0 - fetched[sym].close1,
                                 fetched[sym].close1)

C16_Witness ==
    /\ ~FORCE_HORUS_422
    /\ pc = "sleep"
    /\ DOMAIN fetched = SymSet
    /\ ~fetched["BTC/USD"].ok
    /\ positions["BTC/USD"] = 136000
    /\ momentum_targets["BTC/USD"] = IntRat(136000)
    /\ fetched["ETH/USD"].ok
    /\ rets["ETH/USD"] = Rat(1, 100)
    /\ Ordered("ETH/USD")
    /\ ~Ordered("BTC/USD")

\* C17: today_pnl is 0 in every reachable state, so a veto is always a
\* drawdown veto or an exposure veto and never one of the daily-loss rule.
C17_TodayPnlNeverChanges ==
    /\ today_pnl = 0
    /\ check_result = "veto" =>
         \/ 10 * (peak - total_value) > peak
         \/ /\ total_value > 0
            /\ \E s \in SymSet : 20 * positions[s] > 7 * total_value

C17_Witness ==
    /\ check_result = "allow"
    /\ 100 * (INITIAL_CASH - total_value) > 4 * INITIAL_CASH
    /\ today_pnl = 0

\* C18: in dry-run mode with forced fallback the first cycle's total_value
\* is below 90% of the initial peak, the drawdown rule vetoes it and the
\* cycle places no order.
C18_FirstDryRunCycleVetoed ==
    (DRY_RUN /\ FORCE_HORUS_422 /\ first_cycle) =>
        /\ orders = <<>>
        /\ pc \notin {"momentum", "rebalance"}
        /\ check_result # "none" =>
             /\ 10 * total_value < 9 * INITIAL_CASH
             /\ 10 * (peak - total_value) > peak
             /\ check_result = "veto"

C18_Witness ==
    /\ DRY_RUN
    /\ FORCE_HORUS_422
    /\ first_cycle
    /\ pc = "sleep"
    /\ check_result = "veto"
    /\ peak = INITIAL_CASH
    /\ prices["BTC/USD"] = 68680
    /\ prices["SOL/USD"] = 182
    /\ total_value = 727310

\* C19: kz_bot.py's tracked position is never negative; a buy is issued only
\* at position 0 on signal 1, a sell only at a positive position on signal
\* -1 and for the whole position, which it resets to 0; a step in which the
\* fetch or create_order raised leaves the position as it was.
C19_Original ==
    /\ position >= 0
    /\ \A i \in 1..Len(kz_orders) :
         LET o == kz_orders[i]
         IN  /\ o.side = "buy" => (o.before = 0 /\ o.signal = 1)
             /\ o.side = "sell" =>
                  /\ o.before > 0
                  /\ o.signal = -1
                  /\ o.amount = o.before
                  /\ o.result # "raised" => o.after = 0
    /\ kz_last.raised => position = kz_last.before
====
